---- MODULE Spec2Model ----
(***************************************************************************)
(* The two cube scripts of the repository, src/src/script.js (variant 1,  *)
(* one face, no tint) and src/unnamed/part_000 (variant 2, two faces and  *)
(* a time-varying tint), as one state machine.  The top-level statements  *)
(* of the script run in order (pc), then the host invokes the registered  *)
(* frame callback.  The graphics context is a record (ctx) on which every *)
(* gl call the scripts make is an operator.                               *)
(*                                                                         *)
(* Numbers: times are milliseconds; the rotation angle Date.now() * 0.001 *)
(* is kept in milliradians, so it equals the time read; floats of the     *)
(* vertex array are the integers -1, 0, 1 they are written as.            *)
(***************************************************************************)
EXTENDS Integers, Sequences, FiniteSets, TLC

VARIABLES
    variant,        \* 1 = src/src/script.js, 2 = src/unnamed/part_000
    canvas,         \* <<width, height>> of the host canvas
    hostStrict,     \* the host's binding throws TypeError on a null object argument
    pc,             \* the top-level statement to run next, "idle" or "crashed"
    gl,             \* the constant gl: Null or Context
    ctx,            \* the graphics context's state
    console,        \* console.error messages, in order
    alerts,         \* number of alert() calls
    shaderProgram,  \* the constant shaderProgram: Null or a program id
    programInfo,    \* the constant programInfo
    buffers,        \* the constant buffers
    now,            \* the wall clock, Date.now()
    pending,        \* callbacks registered with requestAnimationFrame, not yet invoked
    frames,         \* invocations of render so far
    validated       \* the script has compared the indices with the vertex count

vars == <<variant, canvas, hostStrict, pc, gl, ctx, console, alerts,
          shaderProgram, programInfo, buffers, now, pending, frames, validated>>

-----------------------------------------------------------------------------
(* Bounds of the model *)

MaxFrames == 3
MaxTime == 2

-----------------------------------------------------------------------------
(* Values *)

Null == 0
Context == 1

Variants == {1, 2}
CanvasSizes == {<<2, 1>>, <<1, 1>>}

FovDeg == 45
NearTenths == 1
FarTenths == 1000
TranslateZ == -6
FloatBytes == 4
Stride == 6 * FloatBytes
ColorOffset == 3 * FloatBytes

ClearTo == <<0, 0, 0, 1>>

positions1 ==
    << -1, -1, 1,  1, 0, 0,
        1, -1, 1,  1, 0, 0,
        1,  1, 1,  1, 0, 0,
       -1,  1, 1,  1, 0, 0 >>

positions2 ==
    << -1, -1,  1,  0, 1, 1,
        1, -1,  1,  0, 1, 1,
        1,  1,  1,  0, 1, 1,
       -1,  1,  1,  0, 1, 1,
       -1, -1, -1,  1, 0, 0,
        1, -1, -1,  1, 0, 0,
        1,  1, -1,  1, 0, 0,
       -1,  1, -1,  1, 0, 0 >>

indices1 == << 0, 1, 2,  0, 2, 3 >>

indices2 == << 0, 1, 2,  0, 2, 3,  4, 5, 6,  4, 6, 7 >>

positions(v) == IF v = 1 THEN positions1 ELSE positions2

indices(v) == IF v = 1 THEN indices1 ELSE indices2

\* The uniforms each variant's shader pair declares.
UniformNames(v) ==
    IF v = 1 THEN {"uProjectionMatrix", "uModelViewMatrix"}
    ELSE {"uProjectionMatrix", "uModelViewMatrix", "uColor"}

AllUniformNames == {"uProjectionMatrix", "uModelViewMatrix", "uColor"}

AttribNames == {"aPosition", "aColor"}

Ops ==
    {"createShader", "shaderSource", "compileShader", "getShaderParameter",
     "getShaderInfoLog", "deleteShader", "createProgram", "attachShader",
     "linkProgram", "getProgramParameter", "getProgramInfoLog",
     "getAttribLocation", "getUniformLocation", "createBuffer", "bindBuffer",
     "bufferData", "clearColor", "clear", "enable", "useProgram",
     "uniformMatrix4fv", "uniform4fv", "vertexAttribPointer",
     "enableVertexAttribArray", "drawElements",
     "perspective", "translate", "rotate", "getDynamicColor",
     "requestAnimationFrame"}

NoAttrib == [size |-> 0, stride |-> 0, offset |-> 0, buffer |-> Null, enabled |-> FALSE]

NoDraw ==
    [count |-> 0, depthTest |-> FALSE, colorBuf |-> <<>>, program |-> Null,
     arrayBuf |-> Null, elemBuf |-> Null,
     uniforms |-> [u \in AllUniformNames |-> <<>>],
     attribs |-> [a \in 0..1 |-> NoAttrib], logLen |-> 0]

\* The context as getContext('webgl') hands it over.
ctx0 ==
    [shaders |-> <<>>, programs |-> <<>>, buffers |-> <<>>,
     arrayBuf |-> Null, elemBuf |-> Null, program |-> Null,
     depthTest |-> FALSE, clearColor |-> <<0, 0, 0, 0>>, colorBuf |-> <<>>,
     uniforms |-> [u \in AllUniformNames |-> <<>>],
     attribs |-> [a \in 0..1 |-> NoAttrib],
     lastDraw |-> NoDraw,
     calls |-> [o \in Ops |-> 0],
     log |-> <<>>]

\* Every call is counted and appended to the log of the running task.
Note(c, op) == [c EXCEPT !.calls[op] = @ + 1, !.log = Append(@, op)]

-----------------------------------------------------------------------------
(* The calls of the graphics context the scripts use.  With a null object   *)
(* argument a call generates a GL error and changes nothing; whether the    *)
(* host's binding throws instead is decided by the callers below.           *)

gl_createShader(c, type) ==
    [Note(c, "createShader") EXCEPT
        !.shaders = Append(@, [type |-> type, source |-> FALSE,
                               compiled |-> FALSE, deleted |-> FALSE])]

gl_shaderSource(c, s) ==
    [Note(c, "shaderSource") EXCEPT !.shaders[s].source = TRUE]

\* ok: the host's compiler accepts the source text.
gl_compileShader(c, s, ok) ==
    [Note(c, "compileShader") EXCEPT !.shaders[s].compiled = ok]

gl_getShaderParameter(c) == Note(c, "getShaderParameter")

gl_getShaderInfoLog(c) == Note(c, "getShaderInfoLog")

gl_deleteShader(c, s) ==
    [Note(c, "deleteShader") EXCEPT !.shaders[s].deleted = TRUE]

gl_createProgram(c) ==
    [Note(c, "createProgram") EXCEPT
        !.programs = Append(@, [attached |-> <<>>, linked |-> FALSE,
                                deleted |-> FALSE])]

gl_attachShader(c, p, s) ==
    IF s = Null THEN Note(c, "attachShader")
    ELSE [Note(c, "attachShader") EXCEPT !.programs[p].attached = Append(@, s)]

HasStage(c, p, type) ==
    \E i \in 1..Len(c.programs[p].attached) :
        LET s == c.shaders[c.programs[p].attached[i]]
        IN  s.type = type /\ s.compiled

\* ok: the host's linker accepts the pair; it needs both compiled stages.
gl_linkProgram(c, p, ok) ==
    [Note(c, "linkProgram") EXCEPT
        !.programs[p].linked =
            ok /\ HasStage(c, p, "VERTEX") /\ HasStage(c, p, "FRAGMENT")]

gl_getProgramParameter(c) == Note(c, "getProgramParameter")

gl_getProgramInfoLog(c) == Note(c, "getProgramInfoLog")

gl_getAttribLocation(c) == Note(c, "getAttribLocation")

gl_getUniformLocation(c) == Note(c, "getUniformLocation")

\* What getAttribLocation returns: -1 unless the program is linked.
AttribLocation(c, p, name) ==
    IF p # Null /\ c.programs[p].linked
    THEN (IF name = "aPosition" THEN 0 ELSE 1)
    ELSE -1

\* What getUniformLocation returns: the uniform itself, or "" for null.
UniformLocation(c, p, name, v) ==
    IF p # Null /\ c.programs[p].linked /\ name \in UniformNames(v)
    THEN name
    ELSE ""

gl_createBuffer(c) ==
    [Note(c, "createBuffer") EXCEPT !.buffers = Append(@, <<>>)]

gl_bindBuffer(c, target, b) ==
    IF target = "ARRAY_BUFFER"
    THEN [Note(c, "bindBuffer") EXCEPT !.arrayBuf = b]
    ELSE [Note(c, "bindBuffer") EXCEPT !.elemBuf = b]

gl_bufferData(c, target, data) ==
    LET b == IF target = "ARRAY_BUFFER" THEN c.arrayBuf ELSE c.elemBuf
    IN  IF b = Null THEN Note(c, "bufferData")
        ELSE [Note(c, "bufferData") EXCEPT !.buffers[b] = data]

gl_clearColor(c, rgba) ==
    [Note(c, "clearColor") EXCEPT !.clearColor = rgba]

\* COLOR_BUFFER_BIT | DEPTH_BUFFER_BIT: the colour buffer takes the clear colour.
gl_clear(c) ==
    [Note(c, "clear") EXCEPT !.colorBuf = c.clearColor]

gl_enable(c) ==
    [Note(c, "enable") EXCEPT !.depthTest = TRUE]

gl_useProgram(c, p) ==
    [Note(c, "useProgram") EXCEPT !.program = p]

\* A null location ("") is ignored; so is an upload with no program in use.
gl_uniform(c, op, loc, value) ==
    IF loc = "" \/ c.program = Null THEN Note(c, op)
    ELSE [Note(c, op) EXCEPT !.uniforms[loc] = value]

\* index -1 is out of range (INVALID_VALUE): nothing changes.
gl_vertexAttribPointer(c, index, size, stride, offset) ==
    IF index \notin 0..1 \/ c.arrayBuf = Null THEN Note(c, "vertexAttribPointer")
    ELSE [Note(c, "vertexAttribPointer") EXCEPT
            !.attribs[index] = [size |-> size, stride |-> stride, offset |-> offset,
                                buffer |-> c.arrayBuf, enabled |-> @.enabled]]

gl_enableVertexAttribArray(c, index) ==
    IF index \notin 0..1 THEN Note(c, "enableVertexAttribArray")
    ELSE [Note(c, "enableVertexAttribArray") EXCEPT !.attribs[index].enabled = TRUE]

\* The draw is recorded with the state it is issued in; with a program in use
\* it writes the colour buffer (<<>>: no longer the clear colour).
gl_drawElements(c, count) ==
    LET d == Note(c, "drawElements")
        snap == [count |-> count, depthTest |-> c.depthTest, colorBuf |-> c.colorBuf,
                 program |-> c.program, arrayBuf |-> c.arrayBuf, elemBuf |-> c.elemBuf,
                 uniforms |-> c.uniforms, attribs |-> c.attribs, logLen |-> Len(d.log)]
    IN  [d EXCEPT !.lastDraw = snap,
                  !.colorBuf = IF c.program = Null THEN @ ELSE <<>>]

-----------------------------------------------------------------------------
(* The functions of the scripts.  Each yields the context after it, the    *)
(* console after it, its return value and whether it threw.                *)

Result(c, con, ret, threw) == [ctx |-> c, console |-> con, ret |-> ret, threw |-> threw]

createShader(c, con, type, ok) ==
    LET c1 == gl_createShader(c, type)
        shader == Len(c1.shaders)
        c2 == gl_shaderSource(c1, shader)
        c3 == gl_compileShader(c2, shader, ok)
        c4 == gl_getShaderParameter(c3)
    IN  IF ~c4.shaders[shader].compiled
        THEN Result(gl_deleteShader(gl_getShaderInfoLog(c4), shader),
                    Append(con, "Shader compilation failed:"), Null, FALSE)
        ELSE Result(c4, con, shader, FALSE)

initShaderProgram(c, con, vsOk, fsOk, linkOk, strict) ==
    LET v == createShader(c, con, "VERTEX", vsOk)
        f == createShader(v.ctx, v.console, "FRAGMENT", fsOk)
        c1 == gl_createProgram(f.ctx)
        prog == Len(c1.programs)
        c2 == gl_attachShader(c1, prog, v.ret)
        c3 == gl_attachShader(c2, prog, f.ret)
        c4 == gl_linkProgram(c3, prog, linkOk)
        c5 == gl_getProgramParameter(c4)
    IN  IF strict /\ v.ret = Null THEN Result(c2, f.console, Null, TRUE)
        ELSE IF strict /\ f.ret = Null THEN Result(c3, f.console, Null, TRUE)
        ELSE IF ~c5.programs[prog].linked
        THEN Result(gl_getProgramInfoLog(c5),
                    Append(f.console, "Shader program linking failed:"), Null, FALSE)
        ELSE Result(c5, f.console, prog, FALSE)

NoProgramInfo ==
    [vertexPosition |-> -1, vertexColor |-> -1,
     projectionMatrix |-> "", modelViewMatrix |-> "", uColor |-> ""]

\* The object literal programInfo: its lookups in source order.
makeProgramInfo(c, con, sp, v, strict) ==
    LET c1 == gl_getAttribLocation(c)
        c2 == gl_getAttribLocation(c1)
        c3 == gl_getUniformLocation(c2)
        c4 == gl_getUniformLocation(c3)
        c5 == IF v = 2 THEN gl_getUniformLocation(c4) ELSE c4
    IN  IF strict /\ sp = Null THEN Result(c1, con, NoProgramInfo, TRUE)
        ELSE Result(c5, con,
                [vertexPosition |-> AttribLocation(c, sp, "aPosition"),
                 vertexColor |-> AttribLocation(c, sp, "aColor"),
                 projectionMatrix |-> UniformLocation(c, sp, "uProjectionMatrix", v),
                 modelViewMatrix |-> UniformLocation(c, sp, "uModelViewMatrix", v),
                 uColor |-> IF v = 2 THEN UniformLocation(c, sp, "uColor", v) ELSE ""],
                FALSE)

NoBuffers == [position |-> Null, indices |-> Null]

initBuffers(c, con, v) ==
    LET c1 == gl_createBuffer(c)
        positionBuffer == Len(c1.buffers)
        c2 == gl_bindBuffer(c1, "ARRAY_BUFFER", positionBuffer)
        c3 == gl_bufferData(c2, "ARRAY_BUFFER", positions(v))
        c4 == gl_createBuffer(c3)
        indexBuffer == Len(c4.buffers)
        c5 == gl_bindBuffer(c4, "ELEMENT_ARRAY_BUFFER", indexBuffer)
        c6 == gl_bufferData(c5, "ELEMENT_ARRAY_BUFFER", indices(v))
    IN  Result(c6, con, [position |-> positionBuffer, indices |-> indexBuffer], FALSE)

\* mat4.perspective(projectionMatrix, PI / 4, width / height, 0.1, 100.0)
Projection(cv) == <<FovDeg, cv[1], cv[2], NearTenths, FarTenths>>

\* translate by [0, 0, -6], then rotate about Y by Date.now() * 0.001
ModelView(t) == <<0, 0, TranslateZ, t>>

\* getDynamicColor reads the clock itself; the channels are functions of it.
getDynamicColor(t) == <<t>>

\* clearTargets without gl.enable(gl.DEPTH_TEST).
clearTargets_noDepthTest(c) == gl_clear(gl_clearColor(c, ClearTo))

\* gl.clearColor, gl.clear, gl.enable(gl.DEPTH_TEST)
clearTargets(c) == gl_enable(gl_clear(gl_clearColor(c, ClearTo)))

\* mat4.create twice, then perspective, translate, rotate
computeMatrices(c) == Note(Note(Note(c, "perspective"), "translate"), "rotate")

\* gl.useProgram and the uniform uploads; variant 2 computes the tint after the
\* matrices are uploaded.
uploadUniforms(c, v, cv, t, sp, info) ==
    LET c1 == gl_useProgram(c, sp)
        c2 == gl_uniform(c1, "uniformMatrix4fv", info.projectionMatrix, Projection(cv))
        c3 == gl_uniform(c2, "uniformMatrix4fv", info.modelViewMatrix, ModelView(t))
    IN  IF v = 2
        THEN gl_uniform(Note(c3, "getDynamicColor"), "uniform4fv",
                        info.uColor, getDynamicColor(t))
        ELSE c3

\* The vertex buffer and the two attributes read from it.
bindAttributes(c, info, bufs) ==
    LET c1 == gl_bindBuffer(c, "ARRAY_BUFFER", bufs.position)
        c2 == gl_vertexAttribPointer(c1, info.vertexPosition, 3, Stride, 0)
        c3 == gl_enableVertexAttribArray(c2, info.vertexPosition)
        c4 == gl_vertexAttribPointer(c3, info.vertexColor, 3, Stride, ColorOffset)
    IN  gl_enableVertexAttribArray(c4, info.vertexColor)

\* drawIndexed issuing the draw before the index buffer is bound.
drawIndexed_drawFirst(c, v, bufs) ==
    gl_bindBuffer(gl_drawElements(c, Len(indices(v))),
                  "ELEMENT_ARRAY_BUFFER", bufs.indices)

\* drawIndexed uploading the index array again in every frame.
drawIndexed_reupload(c, v, bufs) ==
    gl_drawElements(
        gl_bufferData(gl_bindBuffer(c, "ELEMENT_ARRAY_BUFFER", bufs.indices),
                      "ELEMENT_ARRAY_BUFFER", indices(v)),
        Len(indices(v)))

\* gl.bindBuffer(ELEMENT_ARRAY_BUFFER), gl.drawElements(TRIANGLES, indices.length)
drawIndexed(c, v, bufs) ==
    gl_drawElements(gl_bindBuffer(c, "ELEMENT_ARRAY_BUFFER", bufs.indices),
                    Len(indices(v)))

drawScene(c, v, cv, t, sp, info, bufs) ==
    drawIndexed(
        bindAttributes(
            uploadUniforms(computeMatrices(clearTargets(c)), v, cv, t, sp, info),
            info, bufs),
        v, bufs)

\* render registering its callback twice.
render_registersTwice(c, v, cv, t, sp, info, bufs) ==
    Note(Note(drawScene([c EXCEPT !.log = <<>>], v, cv, t, sp, info, bufs),
              "requestAnimationFrame"),
         "requestAnimationFrame")

\* render that draws and does not register itself again.
render_noReschedule(c, v, cv, t, sp, info, bufs) ==
    drawScene([c EXCEPT !.log = <<>>], v, cv, t, sp, info, bufs)

\* render: drawScene, then requestAnimationFrame(render).  The log starts anew
\* with each invocation.
render(c, v, cv, t, sp, info, bufs) ==
    Note(drawScene([c EXCEPT !.log = <<>>], v, cv, t, sp, info, bufs),
         "requestAnimationFrame")


RECURSIVE Count(_, _)
\* Occurrences of op in a log.
Count(log, op) ==
    IF log = <<>> THEN 0
    ELSE (IF Head(log) = op THEN 1 ELSE 0) + Count(Tail(log), op)

-----------------------------------------------------------------------------
(* The script, statement by statement, and the host *)

Init ==
    /\ variant \in Variants
    /\ canvas \in CanvasSizes
    /\ hostStrict \in BOOLEAN
    /\ pc = "getContext"
    /\ gl = Null
    /\ ctx = ctx0
    /\ console = <<>>
    /\ alerts = 0
    /\ shaderProgram = Null
    /\ programInfo = NoProgramInfo
    /\ buffers = NoBuffers
    /\ now = 0
    /\ pending = 0
    /\ frames = 0
    /\ validated = FALSE

\* const gl = canvas.getContext('webgl'): a context, or null when unsupported.
GetContext ==
    /\ pc = "getContext"
    /\ \E supported \in BOOLEAN : gl' = IF supported THEN Context ELSE Null
    /\ pc' = "checkGl"
    /\ UNCHANGED <<variant, canvas, hostStrict, ctx, console, alerts, shaderProgram,
                   programInfo, buffers, now, pending, frames, validated>>

\* The check of gl without its alert.
CheckGl_silent ==
    /\ pc = "checkGl"
    /\ pc' = "initShaderProgram"
    /\ UNCHANGED <<variant, canvas, hostStrict, gl, ctx, console, alerts, shaderProgram,
                   programInfo, buffers, now, pending, frames, validated>>

\* if (!gl) { alert(...) }: the script goes on either way.
CheckGl ==
    /\ pc = "checkGl"
    /\ alerts' = IF gl = Null THEN alerts + 1 ELSE alerts
    /\ pc' = "initShaderProgram"
    /\ UNCHANGED <<variant, canvas, hostStrict, gl, ctx, console, shaderProgram,
                   programInfo, buffers, now, pending, frames, validated>>

\* const shaderProgram = initShaderProgram(gl, ...).  With gl null the first
\* call, gl.createShader, throws a TypeError, which nothing catches.
InitShaderProgramStmt ==
    /\ pc = "initShaderProgram"
    /\ IF gl = Null
       THEN /\ pc' = "crashed"
            /\ UNCHANGED <<ctx, console, shaderProgram>>
       ELSE \E vsOk \in BOOLEAN, fsOk \in BOOLEAN, linkOk \in BOOLEAN :
              LET r == initShaderProgram(ctx, console, vsOk, fsOk, linkOk, hostStrict)
              IN  /\ ctx' = r.ctx
                  /\ console' = r.console
                  /\ shaderProgram' = r.ret
                  /\ pc' = IF r.threw THEN "crashed" ELSE "programInfo"
    /\ UNCHANGED <<variant, canvas, hostStrict, gl, alerts, programInfo, buffers,
                   now, pending, frames, validated>>

\* const programInfo = { ... }
ProgramInfoStmt ==
    /\ pc = "programInfo"
    /\ LET r == makeProgramInfo(ctx, console, shaderProgram, variant, hostStrict)
       IN  /\ ctx' = r.ctx
           /\ programInfo' = r.ret
           /\ pc' = IF r.threw THEN "crashed" ELSE "initBuffers"
    /\ UNCHANGED <<variant, canvas, hostStrict, gl, console, alerts, shaderProgram,
                   buffers, now, pending, frames, validated>>

\* const buffers = initBuffers(gl)
InitBuffersStmt ==
    /\ pc = "initBuffers"
    /\ LET r == initBuffers(ctx, console, variant)
       IN  /\ ctx' = r.ctx
           /\ buffers' = r.ret
    /\ pc' = "render"
    /\ UNCHANGED <<variant, canvas, hostStrict, gl, console, alerts, shaderProgram,
                   programInfo, now, pending, frames, validated>>

\* One invocation of render, from the script or from the host.
Frame ==
    /\ ctx' = render(ctx, variant, canvas, now, shaderProgram, programInfo, buffers)
    /\ frames' = frames + 1

\* render(): the last statement of the script.
FirstRender ==
    /\ pc = "render"
    /\ Frame
    /\ pending' = pending + Count(ctx'.log, "requestAnimationFrame")
    /\ pc' = "idle"
    /\ UNCHANGED <<variant, canvas, hostStrict, gl, console, alerts, shaderProgram,
                   programInfo, buffers, now, validated>>

\* The host invokes a registered callback before a repaint, once the script
\* has run to its end.
HostFrame ==
    /\ pc = "idle"
    /\ pending > 0
    /\ frames < MaxFrames
    /\ Frame
    /\ pending' = (pending - 1) + Count(ctx'.log, "requestAnimationFrame")
    /\ UNCHANGED <<variant, canvas, hostStrict, pc, gl, console, alerts, shaderProgram,
                   programInfo, buffers, now, validated>>

\* The wall clock advances.
Tick ==
    /\ now < MaxTime
    /\ now' = now + 1
    /\ UNCHANGED <<variant, canvas, hostStrict, pc, gl, ctx, console, alerts,
                   shaderProgram, programInfo, buffers, pending, frames, validated>>

Next ==
    \/ GetContext
    \/ CheckGl
    \/ InitShaderProgramStmt
    \/ ProgramInfoStmt
    \/ InitBuffersStmt
    \/ FirstRender
    \/ HostFrame
    \/ Tick

Spec == Init /\ [][Next]_vars

\* The script's statements run one after the other, and the host invokes
\* every callback that is registered.
LiveSpec ==
    /\ Spec
    /\ WF_vars(GetContext) /\ WF_vars(CheckGl) /\ WF_vars(InitShaderProgramStmt)
    /\ WF_vars(ProgramInfoStmt) /\ WF_vars(InitBuffersStmt) /\ WF_vars(FirstRender)
    /\ WF_vars(HostFrame)

-----------------------------------------------------------------------------
(* Properties *)

Reported(msg) == \E i \in DOMAIN console : console[i] = msg

Before(log, a, b) ==
    \E i \in DOMAIN log : \E j \in DOMAIN log : i < j /\ log[i] = a /\ log[j] = b

SetupOps ==
    {"createShader", "shaderSource", "compileShader", "deleteShader", "createProgram",
     "attachShader", "linkProgram", "getAttribLocation", "getUniformLocation",
     "createBuffer", "bufferData"}

\* The calls of one frame, in the order of the source.
FrameLog(v) ==
    <<"clearColor", "clear", "enable", "perspective", "translate", "rotate",
      "useProgram", "uniformMatrix4fv", "uniformMatrix4fv">>
    \o (IF v = 2 THEN <<"getDynamicColor", "uniform4fv">> ELSE <<>>)
    \o <<"bindBuffer", "vertexAttribPointer", "enableVertexAttribArray",
         "vertexAttribPointer", "enableVertexAttribArray", "bindBuffer",
         "drawElements", "requestAnimationFrame">>

\* The order with the tint computed together with the matrices, before the
\* program is bound.
FrameLogTintFirst(v) ==
    <<"clearColor", "clear", "enable", "perspective", "translate", "rotate">>
    \o (IF v = 2 THEN <<"getDynamicColor">> ELSE <<>>)
    \o <<"useProgram", "uniformMatrix4fv", "uniformMatrix4fv">>
    \o (IF v = 2 THEN <<"uniform4fv">> ELSE <<>>)
    \o <<"bindBuffer", "vertexAttribPointer", "enableVertexAttribArray",
         "vertexAttribPointer", "enableVertexAttribArray", "bindBuffer",
         "drawElements", "requestAnimationFrame">>

\* C1: once a compile or link failure has been reported, no draw call is
\* ever issued.
C1_NoDrawAfterSetupFailure ==
    console # <<>> => ctx.calls["drawElements"] = 0

\* C2: with a context, setup that goes on after createShader returned null
\* for a rejected stage raises no uncaught exception.
C2_NoCrashAfterNullStage ==
    (gl = Context /\ Reported("Shader compilation failed:")) => pc # "crashed"

\* C3: once initShaderProgram has returned, no failed object remains: every
\* stage that did not compile is deleted and, after a link failure, null is
\* returned and the program that did not link is released from the context.
C3_FailedProgramReleased ==
    pc \in {"programInfo", "initBuffers", "render", "idle"} =>
        /\ \A s \in DOMAIN ctx.shaders :
            ~ctx.shaders[s].compiled => ctx.shaders[s].deleted
        /\ Reported("Shader program linking failed:") =>
            /\ shaderProgram = Null
            /\ \A p \in DOMAIN ctx.programs :
                ~ctx.programs[p].linked => ctx.programs[p].deleted

\* C4: every invocation of render issues exactly one draw, over the full
\* index array (6 indices in variant 1, 12 in variant 2), with depth testing
\* enabled and the colour buffer cleared to (0,0,0,1) earlier in that frame.
C4_OneDrawPerFrame ==
    /\ ctx.calls["drawElements"] = frames
    /\ frames >= 1 =>
        /\ Count(ctx.log, "drawElements") = 1
        /\ ctx.lastDraw.count = (IF variant = 1 THEN 6 ELSE 12)
        /\ ctx.lastDraw.count = Len(ctx.buffers[buffers.indices])
        /\ ctx.lastDraw.elemBuf = buffers.indices
        /\ ctx.lastDraw.depthTest
        /\ ctx.lastDraw.colorBuf = <<0, 0, 0, 1>>
        /\ Before(ctx.log, "clearColor", "clear")
        /\ Before(ctx.log, "clear", "drawElements")
        /\ Before(ctx.log, "enable", "drawElements")

C4_Witness ==
    /\ frames >= 2
    /\ variant = 2
    /\ ctx.lastDraw.count = 12
    /\ ctx.lastDraw.program # Null

\* C5: at most one frame callback is pending with the host, and every
\* invocation of render registers exactly one callback, as its last step,
\* after its draw.
C5_OneRenderInFlight ==
    /\ pending <= 1
    /\ ctx.calls["requestAnimationFrame"] = frames
    /\ frames >= 1 =>
        /\ Count(ctx.log, "requestAnimationFrame") = 1
        /\ ctx.log[Len(ctx.log)] = "requestAnimationFrame"
        /\ ctx.lastDraw.logLen = Len(ctx.log) - 1

C5_Witness ==
    /\ frames >= 2
    /\ pending = 1
    /\ pc = "idle"

\* C6: once the first render has run a callback is always pending, and, the
\* host invoking every registered callback, every frame is followed by
\* another one (up to the bound of the model).
C6_LoopNeverStops ==
    /\ [](frames >= 1 => pending >= 1)
    /\ \A n \in 1..(MaxFrames - 1) : (frames = n) ~> (frames = n + 1)

C6_Witness ==
    /\ frames = MaxFrames
    /\ pending >= 1
    /\ now = MaxTime

\* C7: with no context (gl null) the alert is shown exactly once and the
\* script does nothing more: no console.error, no call on a graphics
\* context, no draw, no callback registered.  (It ends there with the
\* uncaught TypeError of gl.createShader.)
C7_NoContextOnlyAlert ==
    /\ alerts <= 1
    /\ (alerts = 1) <=> (gl = Null /\ pc \notin {"getContext", "checkGl"})
    /\ (gl = Null) =>
        /\ console = <<>>
        /\ ctx = ctx0
        /\ frames = 0
        /\ pending = 0
        /\ pc \in {"getContext", "checkGl", "initShaderProgram", "crashed"}

C7_Witness ==
    /\ gl = Null
    /\ alerts = 1
    /\ pc = "crashed"

\* C8 as claimed: the calls of a frame are in the order in which the tint is
\* computed with the matrices, before the program is bound.
C8_TintBeforeProgram ==
    frames >= 1 => ctx.log = FrameLogTintFirst(variant)

\* C8 amended: the calls of a frame are in the order of the claim, except
\* that variant 2 computes the tint after the program is bound and the two
\* matrices are uploaded; the draw sees the program, the buffers and, after a
\* successful setup, every uniform and both attributes (stride 6 floats,
\* offsets 0 and 3 floats) set in that frame.
C8_FrameOrder ==
    frames >= 1 =>
        /\ ctx.log = FrameLog(variant)
        /\ ctx.lastDraw.program = shaderProgram
        /\ ctx.lastDraw.arrayBuf = buffers.position
        /\ ctx.lastDraw.elemBuf = buffers.indices
        /\ shaderProgram # Null =>
            /\ \A u \in UniformNames(variant) : ctx.lastDraw.uniforms[u] # <<>>
            /\ ctx.lastDraw.attribs[0] =
                 [size |-> 3, stride |-> 6 * 4, offset |-> 0,
                  buffer |-> buffers.position, enabled |-> TRUE]
            /\ ctx.lastDraw.attribs[1] =
                 [size |-> 3, stride |-> 6 * 4, offset |-> 3 * 4,
                  buffer |-> buffers.position, enabled |-> TRUE]

C8_Witness ==
    /\ frames >= 1
    /\ variant = 2
    /\ shaderProgram # Null
    /\ ctx.lastDraw.uniforms["uColor"] # <<>>

\* C9: compile, link, the location lookups (2 attributes; 2 uniforms in
\* variant 1, 3 in variant 2) and the two uploads are each done once, before
\* the first frame; no frame calls any of them, and after any number of
\* frames the buffers hold the arrays as uploaded; apart from the time read
\* the draw is the same in every frame.
C9_SetupOnce ==
    LET lookups == IF variant = 1 THEN 2 ELSE 3
    IN  /\ ctx.calls["compileShader"] <= 2
        /\ ctx.calls["linkProgram"] <= 1
        /\ ctx.calls["getAttribLocation"] <= 2
        /\ ctx.calls["getUniformLocation"] <= lookups
        /\ ctx.calls["bufferData"] <= 2
        /\ (frames = 0 /\ pc # "render") => ctx.calls["bufferData"] = 0
        /\ (pc \in {"render", "idle"}) =>
            /\ ctx.calls["compileShader"] = 2
            /\ ctx.calls["linkProgram"] = 1
            /\ ctx.calls["getAttribLocation"] = 2
            /\ ctx.calls["getUniformLocation"] = lookups
            /\ ctx.calls["bufferData"] = 2
            /\ ctx.buffers[buffers.position] = positions(variant)
            /\ ctx.buffers[buffers.indices] = indices(variant)
        /\ frames >= 1 =>
            /\ \A i \in DOMAIN ctx.log : ctx.log[i] \notin SetupOps
            /\ shaderProgram # Null =>
                /\ ctx.lastDraw.uniforms["uProjectionMatrix"] = Projection(canvas)
                /\ \E t \in 0..now :
                    /\ ctx.lastDraw.uniforms["uModelViewMatrix"] = ModelView(t)
                    /\ variant = 2 =>
                        ctx.lastDraw.uniforms["uColor"] = getDynamicColor(t)

C9_Witness ==
    /\ frames >= 2
    /\ variant = 2
    /\ ctx.calls["getUniformLocation"] = 3
    /\ ctx.calls["bufferData"] = 2
    /\ now > 0

\* C10: the index array is not uploaded before the script has checked that
\* every index is below the vertex count.
C10_IndicesValidatedBeforeUpload ==
    buffers.indices # Null => validated

\* The data part of C10: lengths are multiples of 6 and of 3, and every index
\* is below the vertex count (4 or 8).
GeometryWellFormed ==
    /\ Len(positions(variant)) % 6 = 0
    /\ Len(positions(variant)) \div 6 = (IF variant = 1 THEN 4 ELSE 8)
    /\ Len(indices(variant)) % 3 = 0
    /\ \A i \in DOMAIN indices(variant) :
        indices(variant)[i] < Len(positions(variant)) \div 6

====
